---- MODULE Spec2Model ----
(***************************************************************************)
(* cheese_wizard: an in-memory cheese registry, users, bounded ratings and *)
(* the request functions rate_cheese, create_new_cheese and all_cheeses.   *)
(*                                                                         *)
(* Strings are sequences of byte values, HashMaps are functions whose      *)
(* DOMAIN is the key set, a Result is a record whose err field is "Ok" or  *)
(* the name of the error variant.                                          *)
(***************************************************************************)
EXTENDS Integers, Sequences, FiniteSets, TLC

VARIABLES registries, users, last, accepted

vars == <<registries, users, last, accepted>>

(***************************************************************************)
(* Bounds of the model.                                                    *)
(***************************************************************************)
NumNames == 2
NumRegistries == 2
MaxAccepted == 2

\* "Ch", "Co", "C", "" and "D" as byte strings
CheeseNames == << <<67, 104>>, <<67, 111>>, <<67>>, <<>>, <<68>> >>

Names == { CheeseNames[i] : i \in 1..NumNames }

\* two users, named by the ids Uuid::new_v4() gave them: distinct, never nil (0)
UserIds == {1, 2}

RegistryIds == 1..NumRegistries

MainRegistry == 1

\* the u8 values a request carries in the state machine
RawRatings == {0, 1, 2, 11}

U8 == 0..255

\* HashMap::new() / Default::default() of a map type
EmptyMap == [k \in {} |-> 0]

\* HashMap::insert: adds the key or replaces the value under it
HashMap_insert(map, key, value) ==
    [k \in DOMAIN map \cup {key} |-> IF k = key THEN value ELSE map[k]]

Ok == "Ok"

(***************************************************************************)
(* cheese.rs                                                               *)
(***************************************************************************)
CheeseRegistry_new == EmptyMap

\* #[derive(Default)] of CheeseData
CheeseData_default == [name |-> <<>>, ratings |-> EmptyMap]

\* variant: the name is not tested, the entry under it is replaced
CheeseRegistry_insert_replacing(registry, cheese) ==
    [err |-> Ok, registry |-> HashMap_insert(registry, cheese.name, cheese)]

\* variant: entry(name).or_default(), the cheese handed in is not stored
CheeseRegistry_insert_or_default(registry, cheese) ==
    IF cheese.name \in DOMAIN registry
    THEN [err |-> "CheeseRegistryError::DuplicateCheeseName", registry |-> registry]
    ELSE [err |-> Ok, registry |-> HashMap_insert(registry, cheese.name, CheeseData_default)]

\* variant: a new name starts a new map, the earlier entries are lost
CheeseRegistry_insert_fresh(registry, cheese) ==
    IF cheese.name \in DOMAIN registry
    THEN [err |-> "CheeseRegistryError::DuplicateCheeseName", registry |-> registry]
    ELSE [err |-> Ok, registry |-> HashMap_insert(CheeseRegistry_new, cheese.name, cheese)]

CheeseRegistry_insert(registry, cheese) ==
    IF cheese.name \in DOMAIN registry
    THEN [err |-> "CheeseRegistryError::DuplicateCheeseName", registry |-> registry]
    ELSE [err |-> Ok, registry |-> HashMap_insert(registry, cheese.name, cheese)]

\* the Ok value is a borrow of the entry, modelled by its key
CheeseRegistry_get_mut(registry, cheese_name) ==
    IF cheese_name \in DOMAIN registry
    THEN [err |-> Ok, key |-> cheese_name]
    ELSE [err |-> "CheeseRegistryError::NoSuchCheeseInRegistry", key |-> cheese_name]

\* variant: the upper bound is tested with >=
CheeseRating_new_ge(rating) ==
    IF rating < 1
    THEN [err |-> "RatingBoundsError::BelowMinimumRating", value |-> 0]
    ELSE IF rating >= 10
         THEN [err |-> "RatingBoundsError::ExceedsMaximumRating", value |-> 0]
         ELSE [err |-> Ok, value |-> rating]

\* variant: the upper bound is not tested
CheeseRating_new_no_maximum(rating) ==
    IF rating < 1
    THEN [err |-> "RatingBoundsError::BelowMinimumRating", value |-> 0]
    ELSE [err |-> Ok, value |-> rating]

\* variant: the two error variants are exchanged
CheeseRating_new_swapped(rating) ==
    IF rating < 1
    THEN [err |-> "RatingBoundsError::ExceedsMaximumRating", value |-> 0]
    ELSE IF rating > 10
         THEN [err |-> "RatingBoundsError::BelowMinimumRating", value |-> 0]
         ELSE [err |-> Ok, value |-> rating]

CheeseRating_new(rating) ==
    IF rating < 1
    THEN [err |-> "RatingBoundsError::BelowMinimumRating", value |-> 0]
    ELSE IF rating > 10
         THEN [err |-> "RatingBoundsError::ExceedsMaximumRating", value |-> 0]
         ELSE [err |-> Ok, value |-> rating]

RegistryCheeseRatingMap_insert(map, user_id, rating) ==
    HashMap_insert(map, user_id, rating)

\* self.0[&uuid]: Index on a HashMap panics when the key is absent
RegistryCheeseRatingMap_get(map, uuid) ==
    IF uuid \in DOMAIN map
    THEN [err |-> Ok, value |-> map[uuid]]
    ELSE [err |-> "panic", value |-> 0]

CheeseData_name(cheese, name) == [cheese EXCEPT !.name = name]

\* variant: the rating never reaches the cheese's map
CheeseData_insert_rating_dropped(cheese, user_id, rating) == cheese

\* variant: the cheese's map is rebuilt with the new rating alone
CheeseData_insert_rating_alone(cheese, user_id, rating) ==
    [cheese EXCEPT !.ratings = RegistryCheeseRatingMap_insert(EmptyMap, user_id, rating)]

CheeseData_insert_rating(cheese, user_id, rating) ==
    [cheese EXCEPT !.ratings = RegistryCheeseRatingMap_insert(@, user_id, rating)]

(***************************************************************************)
(* user data (lib.rs)                                                      *)
(***************************************************************************)
UserData_new(uuid) ==
    [id |-> uuid, name |-> <<>>, age |-> 0, cheese_ratings |-> EmptyMap]

UserCheeseRatingMap_insert(map, cheese_name, rating) ==
    HashMap_insert(map, cheese_name, rating)

\* self.0[&name]: Index on a HashMap panics when the key is absent
UserCheeseRatingMap_get(map, name) ==
    IF name \in DOMAIN map
    THEN [err |-> Ok, value |-> map[name]]
    ELSE [err |-> "panic", value |-> 0]

\* variant: the name is not tested, the rating under it is replaced
UserData_insert_rating_replacing(user, cheese_name, rating) ==
    [err |-> Ok,
     user |-> [user EXCEPT !.cheese_ratings =
                   UserCheeseRatingMap_insert(@, cheese_name, rating)]]

\* variant: a user who has rated anything is refused
UserData_insert_rating_any(user, cheese_name, rating) ==
    IF DOMAIN user.cheese_ratings # {}
    THEN [err |-> "UserDataError::DuplicateCheeseName", user |-> user]
    ELSE [err |-> Ok,
          user |-> [user EXCEPT !.cheese_ratings =
                        UserCheeseRatingMap_insert(@, cheese_name, rating)]]

UserData_insert_rating(user, cheese_name, rating) ==
    IF cheese_name \in DOMAIN user.cheese_ratings
    THEN [err |-> "UserDataError::DuplicateCheeseName", user |-> user]
    ELSE [err |-> Ok,
          user |-> [user EXCEPT !.cheese_ratings =
                        UserCheeseRatingMap_insert(@, cheese_name, rating)]]

(***************************************************************************)
(* requests.rs                                                             *)
(***************************************************************************)
\* variant: the user's duplicate test comes before the rating is validated
rate_cheese_duplicate_first(request, user, registry) ==
    LET found == CheeseRegistry_get_mut(registry, request.cheese) IN
    IF found.err # Ok
    THEN [err |-> found.err, user |-> user, registry |-> registry]
    ELSE
    IF request.cheese \in DOMAIN user.cheese_ratings
    THEN [err |-> "UserDataError::DuplicateCheeseName", user |-> user, registry |-> registry]
    ELSE
    LET rating == CheeseRating_new(request.rating) IN
    IF rating.err # Ok
    THEN [err |-> rating.err, user |-> user, registry |-> registry]
    ELSE
    LET registry1 == [registry EXCEPT ![found.key] =
                         CheeseData_insert_rating(@, user.id, rating.value)]
        inserted == UserData_insert_rating(user, request.cheese, rating.value)
    IN  [err |-> inserted.err, user |-> inserted.user, registry |-> registry1]

\* variant: the rating is validated before the cheese is looked up
rate_cheese_rating_first(request, user, registry) ==
    LET rating == CheeseRating_new(request.rating) IN
    IF rating.err # Ok
    THEN [err |-> rating.err, user |-> user, registry |-> registry]
    ELSE
    LET found == CheeseRegistry_get_mut(registry, request.cheese) IN
    IF found.err # Ok
    THEN [err |-> found.err, user |-> user, registry |-> registry]
    ELSE
    LET registry1 == [registry EXCEPT ![found.key] =
                         CheeseData_insert_rating(@, user.id, rating.value)]
        inserted == UserData_insert_rating(user, request.cheese, rating.value)
    IN  [err |-> inserted.err, user |-> inserted.user, registry |-> registry1]

\* request = [rating |-> u8, cheese |-> String]; the two `?` are early
\* returns, the insert into the cheese has no result to test.
rate_cheese(request, user, registry) ==
    LET found == CheeseRegistry_get_mut(registry, request.cheese) IN
    IF found.err # Ok
    THEN [err |-> found.err, user |-> user, registry |-> registry]
    ELSE
    LET rating == CheeseRating_new(request.rating) IN
    IF rating.err # Ok
    THEN [err |-> rating.err, user |-> user, registry |-> registry]
    ELSE
    LET registry1 == [registry EXCEPT ![found.key] =
                         CheeseData_insert_rating(@, user.id, rating.value)]
        inserted == UserData_insert_rating(user, request.cheese, rating.value)
    IN  [err |-> inserted.err, user |-> inserted.user, registry |-> registry1]

\* variant: the cheese is inserted without its name
create_new_cheese_unnamed(request, registry) ==
    CheeseRegistry_insert(registry, CheeseData_default)

\* request = [name |-> String]
create_new_cheese(request, registry) ==
    CheeseRegistry_insert(registry, CheeseData_name(CheeseData_default, request.name))

\* <str as Ord>::lt: bytewise lexicographic, a proper prefix is smaller
str_lt(a, b) ==
    \/ \E i \in 1..Len(a) :
          /\ i <= Len(b)
          /\ a[i] < b[i]
          /\ \A j \in 1..(i - 1) : a[j] = b[j]
    \/ /\ Len(a) < Len(b)
       /\ \A j \in 1..Len(a) : a[j] = b[j]

\* <CheeseData as Ord>::lt, the order Vec::sort uses: by name
CheeseData_lt(a, b) == str_lt(a.name, b.name)

\* one step of the stable sort: x goes behind every element that is not
\* greater than it
RECURSIVE sort_insert(_, _)
sort_insert(sorted, x) ==
    IF sorted = <<>>
    THEN <<x>>
    ELSE IF CheeseData_lt(x, Head(sorted))
         THEN <<x>> \o sorted
         ELSE <<Head(sorted)>> \o sort_insert(Tail(sorted), x)

\* slice::sort
RECURSIVE sort(_)
sort(v) ==
    IF v = <<>> THEN <<>> ELSE sort_insert(sort(SubSeq(v, 1, Len(v) - 1)), v[Len(v)])

\* the orders in which HashMap::into_values can yield the entries: every
\* arrangement of the key set
IterationOrders(registry) ==
    { order \in [1..Cardinality(DOMAIN registry) -> DOMAIN registry] :
        \A i, j \in DOMAIN order : i # j => order[i] # order[j] }

\* registry.clone().into_iter().collect() under one iteration order
collect(registry, order) == [i \in DOMAIN order |-> registry[order[i]]]

\* variant: the collected cheeses are returned as iterated
all_cheeses_unsorted(registry, order) == collect(registry, order)

all_cheeses(registry, order) == sort(collect(registry, order))

(***************************************************************************)
(* The state machine: one caller at a time owns the registry and the user  *)
(* for the length of a call.  last is the last call and what it returned;  *)
(* accepted records, per registry, user and cheese name, the ratings of    *)
(* the rate_cheese calls that returned Ok, oldest first.                   *)
(***************************************************************************)
NoCall ==
    [op |-> "none", registry |-> 0, user |-> 0, cheese |-> <<>>, rating |-> 0,
     err |-> Ok, value |-> 0, listing |-> <<>>]

Init ==
    /\ registries = [g \in RegistryIds |-> CheeseRegistry_new]
    /\ users = [u \in UserIds |-> UserData_new(u)]
    /\ last = NoCall
    /\ accepted = [t \in RegistryIds \X UserIds \X Names |-> <<>>]

RateCheese(g, u, c, r) ==
    LET res == rate_cheese([rating |-> r, cheese |-> c], users[u], registries[g]) IN
    /\ registries' = [registries EXCEPT ![g] = res.registry]
    /\ users' = [users EXCEPT ![u] = res.user]
    /\ last' = [NoCall EXCEPT !.op = "rate_cheese", !.registry = g, !.user = u,
                              !.cheese = c, !.rating = r, !.err = res.err]
    /\ accepted' = IF res.err = Ok /\ Len(accepted[<<g, u, c>>]) < MaxAccepted
                   THEN [accepted EXCEPT ![<<g, u, c>>] = Append(@, r)]
                   ELSE accepted

CreateNewCheese(g, n) ==
    LET res == create_new_cheese([name |-> n], registries[g]) IN
    /\ registries' = [registries EXCEPT ![g] = res.registry]
    /\ last' = [NoCall EXCEPT !.op = "create_new_cheese", !.registry = g,
                              !.cheese = n, !.err = res.err]
    /\ UNCHANGED <<users, accepted>>

\* CheeseRegistry::insert called directly with a named, unrated cheese
Insert(g, n) ==
    LET res == CheeseRegistry_insert(registries[g], CheeseData_name(CheeseData_default, n)) IN
    /\ registries' = [registries EXCEPT ![g] = res.registry]
    /\ last' = [NoCall EXCEPT !.op = "insert", !.registry = g,
                              !.cheese = n, !.err = res.err]
    /\ UNCHANGED <<users, accepted>>

AllCheeses(g) ==
    \E order \in IterationOrders(registries[g]) :
        /\ last' = [NoCall EXCEPT !.op = "all_cheeses", !.registry = g,
                                  !.listing = all_cheeses(registries[g], order)]
        /\ UNCHANGED <<registries, users, accepted>>

Next ==
    \/ \E u \in UserIds, c \in Names, r \in RawRatings : RateCheese(MainRegistry, u, c, r)
    \/ \E n \in Names : CreateNewCheese(MainRegistry, n)
    \/ \E n \in Names : Insert(MainRegistry, n)
    \/ AllCheeses(MainRegistry)

Spec == Init /\ [][Next]_vars

\* CheeseRating::new applied to every u8
NewRating(r) ==
    LET res == CheeseRating_new(r) IN
    /\ last' = [NoCall EXCEPT !.op = "CheeseRating::new", !.rating = r,
                              !.err = res.err, !.value = res.value]
    /\ UNCHANGED <<registries, users, accepted>>

NextRating == \E r \in U8 : NewRating(r)

SpecRating == Init /\ [][NextRating]_vars

\* the one registry of Spec
registry == registries[MainRegistry]

TypeOK ==
    /\ \A g \in RegistryIds : DOMAIN registries[g] \subseteq Names
    /\ \A u \in UserIds : DOMAIN users[u].cheese_ratings \subseteq Names
    /\ last.err \in {Ok, "CheeseRegistryError::DuplicateCheeseName",
                     "CheeseRegistryError::NoSuchCheeseInRegistry",
                     "RatingBoundsError::BelowMinimumRating",
                     "RatingBoundsError::ExceedsMaximumRating",
                     "UserDataError::DuplicateCheeseName", "panic"}

(***************************************************************************)
(* Direct use of the two rating maps, as the unit tests use them:          *)
(* CheeseData::insert_rating on an entry borrowed with get_mut, and        *)
(* UserData::insert_rating on a user.                                      *)
(***************************************************************************)
ValidRatings == { r \in RawRatings : CheeseRating_new(r).err = Ok }

\* a panic ends the run: no call follows it
Panicked == last.err = "panic"

\* CheeseData::insert_rating returns (): there is no error to report
CheeseInsertRating(g, c, id, r) ==
    /\ ~Panicked
    /\ CheeseRegistry_get_mut(registries[g], c).err = Ok
    /\ registries' = [registries EXCEPT ![g][c] = CheeseData_insert_rating(@, id, r)]
    /\ last' = [NoCall EXCEPT !.op = "CheeseData::insert_rating", !.registry = g,
                              !.user = id, !.cheese = c, !.rating = r, !.err = Ok]
    /\ UNCHANGED <<users, accepted>>

UserInsertRating(u, c, r) ==
    LET res == UserData_insert_rating(users[u], c, r) IN
    /\ ~Panicked
    /\ users' = [users EXCEPT ![u] = res.user]
    /\ last' = [NoCall EXCEPT !.op = "UserData::insert_rating", !.user = u,
                              !.cheese = c, !.rating = r, !.err = res.err]
    /\ UNCHANGED <<registries, accepted>>

\* cheese.ratings.get(id) on an entry of the registry
RegistryRatingGet(g, c, id) ==
    /\ ~Panicked
    /\ CheeseRegistry_get_mut(registries[g], c).err = Ok
    /\ LET res == RegistryCheeseRatingMap_get(registries[g][c].ratings, id) IN
       last' = [NoCall EXCEPT !.op = "RegistryCheeseRatingMap::get", !.registry = g,
                              !.user = id, !.cheese = c,
                              !.err = res.err, !.value = res.value]
    /\ UNCHANGED <<registries, users, accepted>>

\* user.cheese_ratings.get(name)
UserRatingGet(u, c) ==
    LET res == UserCheeseRatingMap_get(users[u].cheese_ratings, c) IN
    /\ ~Panicked
    /\ last' = [NoCall EXCEPT !.op = "UserCheeseRatingMap::get", !.user = u,
                              !.cheese = c, !.err = res.err, !.value = res.value]
    /\ UNCHANGED <<registries, users, accepted>>

\* create_new_cheese, as long as nothing has panicked
CreateCheeseForMaps(n) ==
    /\ ~Panicked
    /\ CreateNewCheese(MainRegistry, n)

NextMaps ==
    \/ \E n \in Names : CreateCheeseForMaps(n)
    \/ \E c \in Names, id \in UserIds, r \in ValidRatings :
          CheeseInsertRating(MainRegistry, c, id, r)
    \/ \E u \in UserIds, c \in Names, r \in ValidRatings : UserInsertRating(u, c, r)
    \/ \E c \in Names, id \in UserIds : RegistryRatingGet(MainRegistry, c, id)
    \/ \E u \in UserIds, c \in Names : UserRatingGet(u, c)

SpecMaps == Init /\ [][NextMaps]_vars

(***************************************************************************)
(* Properties                                                              *)
(***************************************************************************)

\* C1: a rate_cheese call that returns an error leaves every registry (all
\* cheeses and their rating maps) and every user's rating map as they were.
C1_RateCheeseAllOrNothing ==
    [][(last'.op = "rate_cheese" /\ last'.err # Ok)
          => (registries' = registries /\ users' = users)]_vars

\* C2: a rate_cheese call with a valid rating by a user on a cheese for which
\* an earlier call of that user returned Ok with r1 fails with the duplicate
\* error, and both maps still hold r1 afterwards.
C2_SecondCallKeepsFirstRating ==
    [][\A u \in UserIds, c \in Names :
          ( /\ last'.op = "rate_cheese"
            /\ last'.user = u
            /\ last'.cheese = c
            /\ last'.rating \in 1..10
            /\ accepted[<<MainRegistry, u, c>>] # <<>> )
          => ( /\ last'.err = "UserDataError::DuplicateCheeseName"
               /\ c \in DOMAIN registry'
               /\ users[u].id \in DOMAIN registry'[c].ratings
               /\ registry'[c].ratings[users[u].id] = accepted[<<MainRegistry, u, c>>][1]
               /\ c \in DOMAIN users'[u].cheese_ratings
               /\ users'[u].cheese_ratings[c] = accepted[<<MainRegistry, u, c>>][1] )]_vars

\* C3: rate_cheese on a cheese of the registry with a rating in 1..=10 by a
\* user whose rating map has no entry for that cheese returns Ok, and
\* afterwards the cheese's map holds the rating under the user's id and the
\* user's map holds the same rating under the cheese's name.
C3_ValidRatingIsRecordedOnBothSides ==
    [][\A u \in UserIds, c \in Names :
          ( /\ last'.op = "rate_cheese"
            /\ last'.user = u
            /\ last'.cheese = c
            /\ c \in DOMAIN registry
            /\ last'.rating \in 1..10
            /\ c \notin DOMAIN users[u].cheese_ratings )
          => ( /\ last'.err = Ok
               /\ c \in DOMAIN registry'
               /\ users[u].id \in DOMAIN registry'[c].ratings
               /\ registry'[c].ratings[users[u].id] = last'.rating
               /\ c \in DOMAIN users'[u].cheese_ratings
               /\ users'[u].cheese_ratings[c] = last'.rating )]_vars

C3_Witness ==
    /\ last.op = "rate_cheese"
    /\ last.err = Ok
    /\ last.rating = 2
    /\ registry[last.cheese].ratings[users[last.user].id] = 2
    /\ users[last.user].cheese_ratings[last.cheese] = 2

C5_AtMostOneAcceptedRating ==
    \A u \in UserIds, c \in Names : Len(accepted[<<MainRegistry, u, c>>]) <= 1

C5_Witness ==
    /\ last.op = "rate_cheese"
    /\ last.err = "UserDataError::DuplicateCheeseName"
    /\ Len(accepted[<<MainRegistry, last.user, last.cheese>>]) = 1

\* C6: CheeseRegistry::insert and create_new_cheese with a name that is a key
\* of the registry fail with DuplicateCheeseName and leave the registry as it
\* was: same names, the entry under the name keeps its rating map.
C6_DuplicateNameIsRejected ==
    [][( /\ last'.op \in {"insert", "create_new_cheese"}
         /\ last'.cheese \in DOMAIN registry )
          => ( /\ last'.err = "CheeseRegistryError::DuplicateCheeseName"
               /\ registries' = registries )]_vars

C6_Witness ==
    /\ last.op \in {"insert", "create_new_cheese"}
    /\ last.err = "CheeseRegistryError::DuplicateCheeseName"
    /\ last.cheese \in DOMAIN registry
    /\ registry[last.cheese].ratings # EmptyMap

\* C7: an insert into a rating map under a key that is already present is
\* rejected with a duplicate-key error and the map keeps its value, for the
\* cheese's map (keyed by user id) and for the user's map (keyed by name).
C7_RatingMapInsertRejectsPresentKey ==
    [][ /\ ( /\ last'.op = "CheeseData::insert_rating"
             /\ last'.user \in DOMAIN registry[last'.cheese].ratings )
           => ( /\ last'.err # Ok
                /\ registries' = registries )
        /\ ( /\ last'.op = "UserData::insert_rating"
             /\ last'.cheese \in DOMAIN users[last'.user].cheese_ratings )
           => ( /\ last'.err = "UserDataError::DuplicateCheeseName"
                /\ users' = users ) ]_vars

\* C8: CheeseRating::new(r) is Ok(r) for 1 <= r <= 10, BelowMinimumRating for
\* r = 0 and ExceedsMaximumRating for 11 <= r <= 255.
C8_RatingBounds ==
    last.op = "CheeseRating::new"
    => /\ last.rating \in U8
       /\ (last.rating \in 1..10 => (last.err = Ok /\ last.value = last.rating))
       /\ (last.rating = 0 => last.err = "RatingBoundsError::BelowMinimumRating")
       /\ (last.rating \in 11..255 => last.err = "RatingBoundsError::ExceedsMaximumRating")
       /\ (last.err = Ok => last.value \in 1..10)

C8_Witness ==
    /\ last.op = "CheeseRating::new"
    /\ last.rating = 10
    /\ last.err = Ok
    /\ last.value = 10

\* C9: all_cheeses returns every cheese of the registry exactly once, in
\* ascending lexicographic order of the names, and leaves the registry as it
\* was.
C9_AllCheesesSortedByName ==
    [][last'.op = "all_cheeses"
          => ( /\ registries' = registries
               /\ users' = users
               /\ Len(last'.listing) = Cardinality(DOMAIN registry)
               /\ \A n \in DOMAIN registry :
                     Cardinality({ i \in 1..Len(last'.listing) :
                                     last'.listing[i] = registry[n] }) = 1
               /\ \A i, j \in 1..Len(last'.listing) :
                     i < j => str_lt(last'.listing[i].name, last'.listing[j].name) )]_vars

C9_Witness ==
    /\ last.op = "all_cheeses"
    /\ Len(last.listing) >= 2
    /\ \E i \in 1..Len(last.listing) : last.listing[i].ratings # EmptyMap

\* C10: create_new_cheese with a name that is not in the registry returns Ok
\* and adds exactly one entry, a cheese of that name with no ratings; every
\* other entry is as it was.
C10_CreateAddsOneEmptyCheese ==
    [][( /\ last'.op = "create_new_cheese"
         /\ last'.cheese \notin DOMAIN registry )
          => ( /\ last'.err = Ok
               /\ DOMAIN registry' = DOMAIN registry \cup {last'.cheese}
               /\ registry'[last'.cheese] = [name |-> last'.cheese, ratings |-> EmptyMap]
               /\ \A m \in DOMAIN registry : registry'[m] = registry[m]
               /\ users' = users )]_vars

C10_Witness ==
    /\ last.op = "create_new_cheese"
    /\ last.err = Ok
    /\ registry[last.cheese] = [name |-> last.cheese, ratings |-> EmptyMap]
    /\ \E m \in DOMAIN registry : registry[m].ratings # EmptyMap


\* C11: rate_cheese on a cheese of the registry with a raw rating outside
\* 1..=10 fails with BelowMinimumRating for 0 and ExceedsMaximumRating above
\* 10, and leaves the registry and the users as they were.
C11_OutOfBoundsRatingIsRejected ==
    [][( /\ last'.op = "rate_cheese"
         /\ last'.cheese \in DOMAIN registry
         /\ last'.rating \notin 1..10 )
          => ( /\ last'.rating = 0 => last'.err = "RatingBoundsError::BelowMinimumRating"
               /\ last'.rating > 10 => last'.err = "RatingBoundsError::ExceedsMaximumRating"
               /\ last'.err # Ok
               /\ registries' = registries
               /\ users' = users )]_vars

C11_Witness ==
    /\ last.op = "rate_cheese"
    /\ last.cheese \in DOMAIN registry
    /\ last.rating = 11
    /\ last.err = "RatingBoundsError::ExceedsMaximumRating"
    /\ registry[last.cheese].ratings # EmptyMap


\* C12: a lookup of a key that is absent from a rating map (the cheese's map
\* by user id, the user's map by cheese name) returns a NotFound error value
\* and does not panic.
C12_AbsentKeyLookupIsNotFound ==
    /\ ( /\ last.op = "RegistryCheeseRatingMap::get"
         /\ last.user \notin DOMAIN registry[last.cheese].ratings )
       => (last.err # "panic" /\ last.err = "RatingMapError::NotFound")
    /\ ( /\ last.op = "UserCheeseRatingMap::get"
         /\ last.cheese \notin DOMAIN users[last.user].cheese_ratings )
       => (last.err # "panic" /\ last.err = "RatingMapError::NotFound")


\* C13: in every state reached from an empty registry and fresh users by
\* create_new_cheese and rate_cheese calls, cheese c's rating map holds r
\* under u's id exactly if u's rating map holds r under c's name.
C13_CrossMapConsistency ==
    \A u \in UserIds, c \in Names, r \in 1..10 :
        ( /\ c \in DOMAIN registry
          /\ users[u].id \in DOMAIN registry[c].ratings
          /\ registry[c].ratings[users[u].id] = r )
        <=> ( /\ c \in DOMAIN users[u].cheese_ratings
              /\ users[u].cheese_ratings[c] = r )


C16_SuccessfulRatingFrame ==
    [][\A u \in UserIds, c \in Names :
          ( /\ last'.op = "rate_cheese"
            /\ last'.user = u
            /\ last'.cheese = c
            /\ last'.err = Ok )
          => ( /\ DOMAIN registry' = DOMAIN registry
               /\ \A m \in DOMAIN registry \ {c} : registry'[m] = registry[m]
               /\ registry'[c].name = registry[c].name
               /\ DOMAIN registry'[c].ratings = DOMAIN registry[c].ratings \cup {users[u].id}
               /\ \A id \in DOMAIN registry[c].ratings \ {users[u].id} :
                     registry'[c].ratings[id] = registry[c].ratings[id]
               /\ \A g \in RegistryIds \ {MainRegistry} : registries'[g] = registries[g]
               /\ DOMAIN users'[u].cheese_ratings = DOMAIN users[u].cheese_ratings \cup {c}
               /\ \A n \in DOMAIN users[u].cheese_ratings \ {c} :
                     users'[u].cheese_ratings[n] = users[u].cheese_ratings[n]
               /\ users'[u].id = users[u].id
               /\ \A v \in UserIds \ {u} : users'[v] = users[v] )]_vars

C16_Witness ==
    /\ last.op = "rate_cheese"
    /\ last.err = Ok
    /\ last.rating = 2
    /\ \E u2 \in UserIds \ {last.user} :
          /\ users[u2].id \in DOMAIN registry[last.cheese].ratings
          /\ registry[last.cheese].ratings[users[u2].id] = 1
    /\ \E c2 \in Names \ {last.cheese} :
          /\ c2 \in DOMAIN users[last.user].cheese_ratings
          /\ users[last.user].cheese_ratings[c2] = 1
          /\ registry[c2].ratings # EmptyMap


(***************************************************************************)
(* Several registries and the same users: a user's rating map is keyed by  *)
(* cheese name alone, whichever registry the cheese was rated in.          *)
(***************************************************************************)
\* the one user who rates in every registry
Visitor == CHOOSE u \in UserIds : TRUE

NextRegistries ==
    \/ \E g \in RegistryIds, n \in Names : CreateNewCheese(g, n)
    \/ \E g \in RegistryIds, c \in Names, r \in ValidRatings :
          RateCheese(g, Visitor, c, r)

SpecRegistries == Init /\ [][NextRegistries]_vars

\* C17: a user who rated a cheese named c in another registry and calls
\* rate_cheese for c on a registry whose cheese c has no rating from that
\* user gets the duplicate error, and that cheese still has no rating under
\* the user's id afterwards.
C17_ForeignRatingLeavesCheeseUnrated ==
    [][\A g \in RegistryIds, u \in UserIds, c \in Names :
          ( /\ last'.op = "rate_cheese"
            /\ last'.registry = g
            /\ last'.user = u
            /\ last'.cheese = c
            /\ last'.rating \in 1..10
            /\ c \in DOMAIN users[u].cheese_ratings
            /\ \E g2 \in RegistryIds \ {g} : accepted[<<g2, u, c>>] # <<>>
            /\ c \in DOMAIN registries[g]
            /\ users[u].id \notin DOMAIN registries[g][c].ratings )
          => ( /\ last'.err = "UserDataError::DuplicateCheeseName"
               /\ users[u].id \notin DOMAIN registries'[g][c].ratings )]_vars


\* C18: a name of the registry stays in the registry, under the same name
\* field, through every create_new_cheese, insert, rate_cheese and
\* all_cheeses call, and the set of names changes only by a create_new_cheese
\* or insert that returns Ok, which adds its name.
C18_RegistryOnlyGrows ==
    [][ /\ DOMAIN registry \subseteq DOMAIN registry'
        /\ \A n \in DOMAIN registry : registry'[n].name = registry[n].name
        /\ DOMAIN registry' # DOMAIN registry
           => ( /\ last'.op \in {"create_new_cheese", "insert"}
                /\ last'.err = Ok
                /\ DOMAIN registry' = DOMAIN registry \cup {last'.cheese} ) ]_vars

C18_Witness ==
    /\ last.op = "all_cheeses"
    /\ Cardinality(DOMAIN registry) >= 2
    /\ \A n \in DOMAIN registry : Cardinality(DOMAIN registry[n].ratings) >= 2


\* C19: after every create_new_cheese and rate_cheese call each rating stored
\* in a cheese's map or in a user's map is an integer in 1..=10, and a call
\* with raw rating 0 or above 10 stores nothing in either map.
C19_StoredRatingsWithinBounds ==
    [][ /\ \A c \in DOMAIN registry' : \A id \in DOMAIN registry'[c].ratings :
              registry'[c].ratings[id] \in 1..10
        /\ \A u \in UserIds : \A c \in DOMAIN users'[u].cheese_ratings :
              users'[u].cheese_ratings[c] \in 1..10
        /\ (last'.op = "rate_cheese" /\ last'.rating \notin 1..10)
           => (registries' = registries /\ users' = users) ]_vars

C19_Witness ==
    /\ last.op = "rate_cheese"
    /\ last.rating = 11
    /\ last.err = "RatingBoundsError::ExceedsMaximumRating"
    /\ \A u \in UserIds : users[u].cheese_ratings # EmptyMap
    /\ \E c \in DOMAIN registry : Cardinality(DOMAIN registry[c].ratings) >= 2


\* C20: in every state reached through insert, create_new_cheese and
\* rate_cheese each entry of the registry is stored under its own name, so
\* get_mut of a present name yields the cheese of that name; get_mut of an
\* absent name yields NoSuchCheeseInRegistry and creates no entry.
C20_EntriesKeyedByOwnName ==
    /\ \A n \in DOMAIN registry : registry[n].name = n
    /\ \A n \in Names :
          LET found == CheeseRegistry_get_mut(registry, n) IN
          IF n \in DOMAIN registry
          THEN /\ found.err = Ok
               /\ found.key \in DOMAIN registry
               /\ registry[found.key].name = n
          ELSE found.err = "CheeseRegistryError::NoSuchCheeseInRegistry"
    /\ ( /\ last.op = "rate_cheese"
         /\ last.err = "CheeseRegistryError::NoSuchCheeseInRegistry" )
       => last.cheese \notin DOMAIN registry

C20_Witness ==
    /\ last.op = "rate_cheese"
    /\ last.err = "CheeseRegistryError::NoSuchCheeseInRegistry"
    /\ last.rating = 2
    /\ \E n \in DOMAIN registry :
          /\ registry[n].name = n
          /\ registry[n].ratings # EmptyMap

====
